---------------------------- MODULE Spec2Model ----------------------------
(***************************************************************************)
(* MS5611 barometric sensor driver over SPI (MS5611SPI.c / MS5611SPI.h).   *)
(*                                                                         *)
(* The driver is single threaded and blocking.  Every function is modelled *)
(* as a sequence of steps, one per bus primitive it calls; `pc` is the     *)
(* position inside the running function.  The HAL primitives               *)
(* (HAL_SPI_Transmit, HAL_SPI_Receive, HAL_GPIO_WritePin, HAL_Delay) are   *)
(* the environment: each transfer succeeds or fails nondeterministically,  *)
(* and every call of a primitive is appended to `wire`, the record of the  *)
(* bus activity of the current call.                                       *)
(*                                                                         *)
(* Memory is modelled in bytes: struct promData is 16 bytes, and a 16-bit  *)
(* field is read from its two bytes least-significant-byte-first, the byte *)
(* order of the STM32 (Cortex-M) targets the driver is written for.        *)
(***************************************************************************)
EXTENDS Integers, Sequences, FiniteSets, TLC

VARIABLES
    pc,          \* position inside the running function, "idle" between calls
    op,          \* the function called last (running or returned)
    osr,         \* oversampling argument of the running conversion call
    cs,          \* level of the chip-select pin
    promData,    \* static struct promData (MS5611SPI.c:30), 16 bytes
    prom,        \* struct promData of a caller that calls MS5611PromRead itself
    address,     \* loop counter of MS5611PromRead
    promRet,     \* value returned by the last MS5611PromRead
    ret,         \* value returned by the last completed call
    raw_data,    \* the caller's uint32_t that MS5611_ADC_Read stores into
    wire,        \* primitives called since the running call was entered
    rom,         \* calibration PROM of the attached device, eight 16-bit words
    calls,       \* number of driver calls made so far
    sample,      \* the caller's MS5611_Raw_Data_TypeDef
    value,       \* the caller's MS5611_Converted_Data_TypeDef
    entry,       \* promData and raw_data as they were when the call was entered
    locals       \* local variables of the last MS5611_Data_Convert at its end

vars == <<pc, op, osr, cs, promData, prom, address, promRet, ret, raw_data,
          wire, rom, calls, sample, value, entry, locals>>

----------------------------------------------------------------------------
(* Bounds of the model *)

\* number of driver calls in one behaviour
MaxCalls == 2

----------------------------------------------------------------------------
(* MS5611SPI.h *)

RESET_COMMAND == 30

CONVERT_D1_COMMAND == 64

CONVERT_D2_COMMAND == 80

READ_ADC_COMMAND == 0

OSRCodes == {0, 2, 4, 6, 8}

MS5611States == {"MS5611_STATE_FAILED", "MS5611_STATE_READY",
                 "MS5611_STATE_BUSY", "MS5611_HAL_ERROR"}

\* word index of each field of struct promData
promField == [reserved |-> 0, sens |-> 1, off |-> 2, tcs |-> 3,
              tco |-> 4, tref |-> 5, tempsens |-> 6, crc |-> 7]

----------------------------------------------------------------------------
(* C integer operators on unsigned values *)

RECURSIVE BitOr(_, _)
BitOr(a, b) ==
    IF a = 0 THEN b
    ELSE IF b = 0 THEN a
    ELSE (IF (a % 2 = 1) \/ (b % 2 = 1) THEN 1 ELSE 0)
         + 2 * BitOr(a \div 2, b \div 2)

RECURSIVE Pow2(_)
Pow2(n) == IF n = 0 THEN 1 ELSE 2 * Pow2(n - 1)

\* a << n; every operand the driver shifts is below 2^8 and n <= 16, so the
\* result is below 2^24 and nothing is lost in a 32-bit int or uint32_t
Shl(a, n) == a * Pow2(n)

\* conversion to uint8_t
U8(a) == a % 256

\* PROM_READ with the shift of the address left out
PROM_READ_NoShift(a) == BitOr(160, a)

PROM_READ(a) == BitOr(160, Shl(a, 1))

----------------------------------------------------------------------------
(* int64_t and int32_t arithmetic of MS5611_Data_Convert.                  *)
(* An int64_t is its two's complement representation: eight bytes, least   *)
(* significant first.  An int32_t is an integer in -2^31 .. 2^31 - 1.      *)
(* Each operator first evaluates its operands (they are bound by a set     *)
(* constructor) and then computes the eight bytes of the result.           *)

\* the byte that extends the sign of an int64_t
SignByte(a) == IF a[8] >= 128 THEN 255 ELSE 0

\* (int64_t) n for an int32_t n (sign extension), also for a uint16_t or a
\* uint32_t below 2^31 (zero extension)
I64Bytes(n) ==
    <<n % 256, (n \div 256) % 256, (n \div 65536) % 256,
      (n \div 16777216) % 256,
      IF n < 0 THEN 255 ELSE 0, IF n < 0 THEN 255 ELSE 0,
      IF n < 0 THEN 255 ELSE 0, IF n < 0 THEN 255 ELSE 0>>

I64(n0) == CHOOSE r \in {I64Bytes(n) : n \in {n0}} : TRUE

\* (int32_t) a: the low 32 bits of a, read as a signed value
ToI32(a0) ==
    CHOOSE r \in
        {a[1] + 256 * a[2] + 65536 * a[3]
         + 16777216 * (IF a[4] >= 128 THEN a[4] - 256 ELSE a[4]) : a \in {a0}}
        : TRUE

RECURSIVE AddCarry(_, _, _)
\* carry into byte k of a + b
AddCarry(a, b, k) ==
    IF k = 1 THEN 0
    ELSE (a[k - 1] + b[k - 1] + AddCarry(a, b, k - 1)) \div 256

AddByte(a, b, k) == (a[k] + b[k] + AddCarry(a, b, k)) % 256

AddBytes(a, b) ==
    <<AddByte(a, b, 1), AddByte(a, b, 2), AddByte(a, b, 3), AddByte(a, b, 4),
      AddByte(a, b, 5), AddByte(a, b, 6), AddByte(a, b, 7), AddByte(a, b, 8)>>

\* a + b on int64_t
Add64(a0, b0) == CHOOSE r \in {AddBytes(a, b) : a \in {a0}, b \in {b0}} : TRUE

\* ~a on int64_t
Not64(a0) ==
    CHOOSE r \in
        {<<255 - a[1], 255 - a[2], 255 - a[3], 255 - a[4],
           255 - a[5], 255 - a[6], 255 - a[7], 255 - a[8]>> : a \in {a0}}
        : TRUE

\* -a on int64_t
Neg64(a) == Add64(Not64(a), I64(1))

\* a - b on int64_t
Sub64(a, b) == Add64(a, Neg64(b))

RECURSIVE MulColumn(_, _, _, _)
\* sum of a[i] * b[k + 1 - i] for i = 1..n
MulColumn(a, b, k, n) ==
    IF n = 0 THEN 0 ELSE a[n] * b[k + 1 - n] + MulColumn(a, b, k, n - 1)

RECURSIVE MulCarry(_, _, _)
\* carry into byte k of a * b
MulCarry(a, b, k) ==
    IF k = 1 THEN 0
    ELSE (MulColumn(a, b, k - 1, k - 1) + MulCarry(a, b, k - 1)) \div 256

MulByte(a, b, k) == (MulColumn(a, b, k, k) + MulCarry(a, b, k)) % 256

MulBytes(a, b) ==
    <<MulByte(a, b, 1), MulByte(a, b, 2), MulByte(a, b, 3), MulByte(a, b, 4),
      MulByte(a, b, 5), MulByte(a, b, 6), MulByte(a, b, 7), MulByte(a, b, 8)>>

\* a * b on int64_t: the low 64 bits of the product
Mul64(a0, b0) == CHOOSE r \in {MulBytes(a, b) : a \in {a0}, b \in {b0}} : TRUE

\* byte k of a sign-extended beyond its eight bytes
ExtByte(a, k) == IF k <= 8 THEN a[k] ELSE SignByte(a)

\* byte k of a >> (8 * q + r)
SarByte(a, q, lo, hi, k) ==
    (ExtByte(a, k + q) \div lo + (ExtByte(a, k + q + 1) % lo) * hi) % 256

SarBytes(a, q, lo, hi) ==
    <<SarByte(a, q, lo, hi, 1), SarByte(a, q, lo, hi, 2),
      SarByte(a, q, lo, hi, 3), SarByte(a, q, lo, hi, 4),
      SarByte(a, q, lo, hi, 5), SarByte(a, q, lo, hi, 6),
      SarByte(a, q, lo, hi, 7), SarByte(a, q, lo, hi, 8)>>

\* a >> n on int64_t, the arithmetic shift the ARM compilers generate for a
\* signed operand: the quotient by 2^n rounded toward minus infinity
Sar64(a0, n) ==
    CHOOSE r \in
        {SarBytes(a, n \div 8, lo, hi) :
            a \in {a0}, lo \in {Pow2(n % 8)}, hi \in {Pow2(8 - (n % 8))}}
        : TRUE

\* a << n on int64_t, n < 31
Shl64(a, n) == Mul64(a, I64(Pow2(n)))

----------------------------------------------------------------------------
(* Memory *)

\* the uint16_t stored at word index i of a 16-byte struct promData
Word(mem, i) == mem[2 * i + 1] + 256 * mem[2 * i + 2]

Field(mem, f) == Word(mem, promField[f])

\* bytes the device sends for a 16-bit word: most significant byte first
WireBytes(w) == <<w \div 256, w % 256>>

\* the first n bytes of `bytes` stored at byte offset `at` of mem
Store(mem, at, bytes, n) ==
    [k \in 1..Len(mem) |->
        IF k > at /\ k <= at + n THEN bytes[k - at] ELSE mem[k]]

\* the second loop of MS5611PromRead left out
SwapBytes_Omitted(mem) == mem

\* the swap without the temporary secondByte: toSwap[1] gets the new toSwap[0]
SwapBytes_NoTemp(mem) ==
    [k \in 1..Len(mem) |-> IF k % 2 = 1 THEN mem[k + 1] ELSE mem[k]]

\* lines 95-102: the two bytes of each of the eight words are exchanged
SwapBytes(mem) ==
    [k \in 1..Len(mem) |-> IF k % 2 = 1 THEN mem[k + 1] ELSE mem[k - 1]]

ZeroProm == [k \in 1..16 |-> 0]

----------------------------------------------------------------------------
(* Environment: the device and the HAL *)

OffWords == {0, 36924}

TrefWords == {65535, 255, 65280, 33464}

RomImage(o, t) == [i \in 0..7 |->
    CASE i = 0 -> 258
      [] i = 1 -> 40127
      [] i = 2 -> o
      [] i = 3 -> 23317
      [] i = 4 -> 23282
      [] i = 5 -> t
      [] i = 6 -> 28312
      [] i = 7 -> 42251]

PromImages == {RomImage(o, t) : o \in OffWords, t \in TrefWords}

AdcBytes == {0, 129, 255}

CsLow == [ev |-> "cs_low", data |-> <<>>, size |-> 0, ok |-> TRUE]

CsHigh == [ev |-> "cs_high", data |-> <<>>, size |-> 0, ok |-> TRUE]

Tx(bytes, ok) == [ev |-> "tx", data |-> bytes, size |-> Len(bytes), ok |-> ok]

Rx(bytes, n, ok) == [ev |-> "rx", data |-> bytes, size |-> n, ok |-> ok]

Delay(ms) == [ev |-> "delay", data |-> <<>>, size |-> ms, ok |-> TRUE]

\* raw samples the application converts while it drives the bus
DriverSamples == {[pressure |-> 6465444, temperature |-> 8077636]}

\* the memory a failed call could have damaged, taken when a call is entered
AtEntry == [promData |-> promData, raw_data |-> raw_data]

----------------------------------------------------------------------------
(* MS5611_Data_Convert, MS5611SPI.c:191-224 *)

\* line 197: uint32_t minus int32_t, converted to the int32_t dT
Conv_dT(t, mem) == ToI32(Sub64(I64(t), I64(Shl(Field(mem, "tref"), 8))))

\* line 199: the first-order TEMP, converted to int32_t
Conv_TEMP(dT, mem) ==
    ToI32(Add64(I64(2000),
                Sar64(Mul64(I64(dT), I64(Field(mem, "tempsens"))), 23)))

\* line 201
Conv_OFF(dT, mem) ==
    Add64(Shl64(I64(Field(mem, "off")), 16),
          Sar64(Mul64(I64(Field(mem, "tco")), I64(dT)), 7))

\* line 202
Conv_SENS(dT, mem) ==
    Add64(Shl64(I64(Field(mem, "sens")), 15),
          Sar64(Mul64(I64(Field(mem, "tcs")), I64(dT)), 8))

\* the test of line 205 with <= in place of <
LowTemp_Inclusive(TEMP) == TEMP <= 2000

\* line 205
LowTemp(TEMP) == TEMP < 2000

\* T2 with a shift by 30 in place of 31
Conv_T2_Shift30(dT) == ToI32(Sar64(Mul64(I64(dT), I64(dT)), 30))

\* line 206, converted to the int32_t T2
Conv_T2(dT) == ToI32(Sar64(Mul64(I64(dT), I64(dT)), 31))

\* line 208
Conv_OFF2(TEMPM) == Sar64(Mul64(Mul64(I64(5), I64(TEMPM)), I64(TEMPM)), 1)

\* line 209
Conv_SENS2(TEMPM) == Sar64(Mul64(Mul64(I64(5), I64(TEMPM)), I64(TEMPM)), 2)

\* line 210
VeryCold(TEMP) == TEMP < -1500

\* line 212: int32_t TEMPP2 = TEMPP * TEMPP, as the int64_t it is converted
\* to in lines 213-214.  When the product does not fit an int32_t the
\* multiplication is undefined: the build either keeps its low 32 bits
\* (wide = FALSE) or carries the full product on (wide = TRUE).
Conv_TEMPP2(TEMPP, wide) ==
    LET P == Mul64(I64(TEMPP), I64(TEMPP)) IN
    IF wide THEN P ELSE I64(ToI32(P))

\* line 213: the amount added to OFF2
Conv_OFF2Cold(TEMPP2) == Mul64(I64(7), TEMPP2)

\* line 214: the amount added to SENS2
Conv_SENS2Cold(TEMPP2) == Sar64(Mul64(I64(11), TEMPP2), 1)

\* line 221, converted to the int32_t value->pressure
Conv_Pressure(p, SENS, OFF) ==
    ToI32(Sar64(Sub64(Sar64(Mul64(I64(p), SENS), 21), OFF), 15))

Zero64 == I64(0)

NoLocals == [dT |-> 0, TEMP1 |-> 0, OFF1 |-> Zero64, SENS1 |-> Zero64,
             low |-> FALSE, cold |-> FALSE, T2 |-> 0,
             OFF2low |-> Zero64, SENS2low |-> Zero64,
             OFF2 |-> Zero64, SENS2 |-> Zero64,
             TEMP |-> 0, OFF |-> Zero64, SENS |-> Zero64, pressure |-> 0]

\* lines 221-222: the local variables when the function returns
ConvertEnd(s, dT, TEMP1, OFF1, SENS1, low, cold, T2, OFF2low, SENS2low, OFF2, SENS2, TEMP, OFF, SENS) ==
    [dT |-> dT, TEMP1 |-> TEMP1, OFF1 |-> OFF1, SENS1 |-> SENS1,
     low |-> low, cold |-> cold, T2 |-> T2,
     OFF2low |-> OFF2low, SENS2low |-> SENS2low,
     OFF2 |-> OFF2, SENS2 |-> SENS2,
     TEMP |-> TEMP, OFF |-> OFF, SENS |-> SENS,
     pressure |-> Conv_Pressure(s.pressure, SENS, OFF)]

\* lines 216-218: TEMP -= T2; OFF -= OFF2; SENS -= SENS2
ConvertSubtract(s, dT, TEMP1, OFF1, SENS1, cold, T2, OFF2low, SENS2low, OFF2, SENS2) ==
    ConvertEnd(s, dT, TEMP1, OFF1, SENS1, TRUE, cold, T2, OFF2low, SENS2low,
               OFF2, SENS2, TEMP1 - T2, Sub64(OFF1, OFF2), Sub64(SENS1, SENS2))

\* lines 210-215: the very-cold block
ConvertCold(s, dT, TEMP1, OFF1, SENS1, T2, OFF2low, SENS2low, TEMPP2) ==
    ConvertSubtract(s, dT, TEMP1, OFF1, SENS1, TRUE, T2, OFF2low, SENS2low,
                    Add64(OFF2low, Conv_OFF2Cold(TEMPP2)),
                    Add64(SENS2low, Conv_SENS2Cold(TEMPP2)))

\* lines 206-210: the low-temperature block up to its inner test
ConvertLow(s, wide, dT, TEMP1, OFF1, SENS1, T2, OFF2low, SENS2low) ==
    IF VeryCold(TEMP1)
    THEN ConvertCold(s, dT, TEMP1, OFF1, SENS1, T2, OFF2low, SENS2low,
                     Conv_TEMPP2(TEMP1 + 1500, wide))
    ELSE ConvertSubtract(s, dT, TEMP1, OFF1, SENS1, FALSE, T2, OFF2low,
                         SENS2low, OFF2low, SENS2low)

\* line 205: the test that selects the second-order correction
ConvertTest(s, wide, dT, TEMP1, OFF1, SENS1) ==
    IF LowTemp(TEMP1)
    THEN ConvertLow(s, wide, dT, TEMP1, OFF1, SENS1, Conv_T2(dT),
                    Conv_OFF2(TEMP1 - 2000), Conv_SENS2(TEMP1 - 2000))
    ELSE ConvertEnd(s, dT, TEMP1, OFF1, SENS1, FALSE, FALSE, 0, Zero64,
                    Zero64, Zero64, Zero64, TEMP1, OFF1, SENS1)

\* lines 199-202
ConvertFirstOrder(s, mem, wide, dT) ==
    ConvertTest(s, wide, dT, Conv_TEMP(dT, mem), Conv_OFF(dT, mem),
                Conv_SENS(dT, mem))

\* lines 192-222: MS5611_Data_Convert on the raw sample s and the table mem
DataConvert(s, mem, wide) ==
    ConvertFirstOrder(s, mem, wide, Conv_dT(s.temperature, mem))

\* MS5611_Data_Convert with line 197 written promData.tref <<= 8: the
\* shifted reference temperature is stored back into the table
MS5611_Data_Convert_ShiftsTref ==
    /\ pc = "idle"
    /\ calls < MaxCalls
    /\ calls' = calls + 1
    /\ entry' = AtEntry
    /\ op' = "MS5611_Data_Convert"
    /\ ret' = "none"
    /\ wire' = <<>>
    /\ \E wide \in BOOLEAN :
          /\ locals' = DataConvert(sample, promData, wide)
          /\ value' = [pressure |-> locals'.pressure,
                       temperature |-> locals'.TEMP]
    /\ promData' = Store(promData, 10, <<0, promData[11]>>, 2)
    /\ UNCHANGED <<pc, osr, cs, prom, address, promRet, raw_data, rom,
                   sample>>

\* the whole function: it makes no bus transfer and returns nothing
MS5611_Data_Convert ==
    /\ pc = "idle"
    /\ calls < MaxCalls
    /\ calls' = calls + 1
    /\ entry' = AtEntry
    /\ op' = "MS5611_Data_Convert"
    /\ ret' = "none"
    /\ wire' = <<>>
    /\ \E wide \in BOOLEAN :
          /\ locals' = DataConvert(sample, promData, wide)
          /\ value' = [pressure |-> locals'.pressure,
                       temperature |-> locals'.TEMP]
    /\ UNCHANGED <<pc, osr, cs, promData, prom, address, promRet, raw_data,
                   rom, sample>>

----------------------------------------------------------------------------
Init ==
    /\ pc = "idle"
    /\ op = "none"
    /\ osr = 0
    /\ cs = "GPIO_PIN_SET"
    /\ promData = ZeroProm
    /\ prom = ZeroProm
    /\ address = 0
    /\ promRet = "none"
    /\ ret = "none"
    /\ raw_data = 0
    /\ wire = <<>>
    /\ rom \in PromImages
    /\ calls = 0
    /\ sample \in DriverSamples
    /\ value = [pressure |-> 0, temperature |-> 0]
    /\ entry = [promData |-> ZeroProm, raw_data |-> 0]
    /\ locals = NoLocals

----------------------------------------------------------------------------
(* MS5611_Init, MS5611SPI.c:38-60 *)

\* called; line 42: enableCS_MS5611
MS5611_Init_Call ==
    /\ pc = "idle"
    /\ calls < MaxCalls
    /\ calls' = calls + 1
    /\ entry' = AtEntry
    /\ op' = "MS5611_Init"
    /\ ret' = "none"
    /\ cs' = "GPIO_PIN_RESET"
    /\ wire' = <<CsLow>>
    /\ pc' = "init_tx"
    /\ UNCHANGED <<osr, promData, prom, address, promRet, raw_data, rom, sample, value, locals>>

\* lines 43-49: the reset command is transmitted
MS5611_Init_Reset ==
    /\ pc = "init_tx"
    /\ \E ok \in BOOLEAN :
        IF ok
        THEN /\ wire' = Append(wire, Tx(<<RESET_COMMAND>>, TRUE))
             /\ pc' = "init_delay"
             /\ UNCHANGED <<cs, ret>>
        ELSE /\ wire' = wire \o <<Tx(<<RESET_COMMAND>>, FALSE), CsHigh>>
             /\ cs' = "GPIO_PIN_SET"
             /\ ret' = "MS5611_HAL_ERROR"
             /\ pc' = "idle"
    /\ UNCHANGED <<op, osr, promData, prom, address, promRet, raw_data, rom, sample, value, locals,
                   calls, entry>>

\* MS5611_Init_Delay without the HAL_Delay(3) of line 51
MS5611_Init_Delay_NoDelay ==
    /\ pc = "init_delay"
    /\ wire' = Append(wire, CsHigh)
    /\ cs' = "GPIO_PIN_SET"
    /\ address' = 0
    /\ pc' = "prom_loop"
    /\ UNCHANGED <<op, osr, promData, prom, promRet, ret, raw_data, rom, sample, value, locals,
                   calls, entry>>

\* lines 51-54: HAL_Delay(3), disableCS_MS5611, MS5611PromRead is entered
MS5611_Init_Delay ==
    /\ pc = "init_delay"
    /\ wire' = wire \o <<Delay(3), CsHigh>>
    /\ cs' = "GPIO_PIN_SET"
    /\ address' = 0
    /\ pc' = "prom_loop"
    /\ UNCHANGED <<op, osr, promData, prom, promRet, ret, raw_data, rom, sample, value, locals,
                   calls, entry>>

\* the validity test with && in place of ||
PromInvalid_Both(mem) == Field(mem, "off") = 0 /\ Field(mem, "tref") = 255

\* line 56: the validity test on the static table
PromInvalid(mem) == Field(mem, "off") = 0 \/ Field(mem, "tref") = 255

\* lines 56-59: the value of MS5611PromRead is not looked at
MS5611_Init_Check ==
    /\ pc = "prom_done"
    /\ op = "MS5611_Init"
    /\ ret' = IF PromInvalid(promData)
              THEN "MS5611_STATE_FAILED" ELSE "MS5611_STATE_READY"
    /\ pc' = "idle"
    /\ UNCHANGED <<op, osr, cs, promData, prom, address, promRet, raw_data,
                   wire, rom, sample, value, locals, calls, entry>>

----------------------------------------------------------------------------
(* MS5611PromRead, MS5611SPI.c:68-105 *)

\* the struct the running MS5611PromRead writes: the static promData when
\* called by MS5611_Init (line 54), the caller's struct otherwise
Target == IF op = "MS5611_Init" THEN promData ELSE prom

SetTarget(mem) ==
    IF op = "MS5611_Init"
    THEN promData' = mem /\ UNCHANGED prom
    ELSE prom' = mem /\ UNCHANGED promData

\* called directly by the application, with a zeroed struct of its own
MS5611PromRead_Call ==
    /\ pc = "idle"
    /\ calls < MaxCalls
    /\ calls' = calls + 1
    /\ entry' = AtEntry
    /\ op' = "MS5611PromRead"
    /\ ret' = "none"
    /\ prom' = ZeroProm
    /\ address' = 0
    /\ wire' = <<>>
    /\ pc' = "prom_loop"
    /\ UNCHANGED <<osr, cs, promData, promRet, raw_data, rom, sample, value, locals>>

\* MS5611PromRead_Select without the enableCS_MS5611 of line 77
MS5611PromRead_Select_NoAssert ==
    /\ pc = "prom_loop"
    /\ address < 8
    /\ pc' = "prom_tx"
    /\ UNCHANGED <<op, osr, cs, promData, prom, address, promRet, ret,
                   raw_data, wire, rom, sample, value, locals, calls, entry>>

\* lines 75-77: loop test, command byte, enableCS_MS5611
MS5611PromRead_Select ==
    /\ pc = "prom_loop"
    /\ address < 8
    /\ cs' = "GPIO_PIN_RESET"
    /\ wire' = Append(wire, CsLow)
    /\ pc' = "prom_tx"
    /\ UNCHANGED <<op, osr, promData, prom, address, promRet, ret, raw_data,
                   rom, sample, value, locals, calls, entry>>

\* MS5611PromRead_Transmit without the disableCS_MS5611 of line 81
MS5611PromRead_Transmit_NoRelease ==
    /\ pc = "prom_tx"
    /\ \E ok \in BOOLEAN :
        IF ok
        THEN /\ wire' = Append(wire, Tx(<<U8(PROM_READ(address))>>, TRUE))
             /\ pc' = "prom_rx"
             /\ UNCHANGED promRet
        ELSE /\ wire' = Append(wire, Tx(<<U8(PROM_READ(address))>>, FALSE))
             /\ promRet' = "MS5611_HAL_ERROR"
             /\ pc' = "prom_done"
    /\ UNCHANGED <<op, osr, cs, promData, prom, address, ret, raw_data, rom, sample, value, locals,
                   calls, entry>>

\* MS5611PromRead_Transmit without the return of line 82
MS5611PromRead_Transmit_NoReturn ==
    /\ pc = "prom_tx"
    /\ \E ok \in BOOLEAN :
        IF ok
        THEN /\ wire' = Append(wire, Tx(<<U8(PROM_READ(address))>>, TRUE))
             /\ UNCHANGED cs
        ELSE /\ wire' = wire \o <<Tx(<<U8(PROM_READ(address))>>, FALSE), CsHigh>>
             /\ cs' = "GPIO_PIN_SET"
    /\ pc' = "prom_rx"
    /\ UNCHANGED <<op, osr, promData, prom, address, promRet, ret, raw_data,
                   rom, sample, value, locals, calls, entry>>

\* lines 79-83: the read command of word `address` is transmitted
MS5611PromRead_Transmit ==
    /\ pc = "prom_tx"
    /\ \E ok \in BOOLEAN :
        IF ok
        THEN /\ wire' = Append(wire, Tx(<<U8(PROM_READ(address))>>, TRUE))
             /\ pc' = "prom_rx"
             /\ UNCHANGED <<cs, promRet>>
        ELSE /\ wire' = wire \o <<Tx(<<U8(PROM_READ(address))>>, FALSE), CsHigh>>
             /\ cs' = "GPIO_PIN_SET"
             /\ promRet' = "MS5611_HAL_ERROR"
             /\ pc' = "prom_done"
    /\ UNCHANGED <<op, osr, promData, prom, address, ret, raw_data, rom, sample, value, locals,
                   calls, entry>>

\* lines 85-92: two bytes are received into word `address`; a failed
\* receive may have stored any prefix of them
MS5611PromRead_Receive ==
    /\ pc = "prom_rx"
    /\ \E ok \in BOOLEAN :
        IF ok
        THEN /\ SetTarget(Store(Target, 2 * address, WireBytes(rom[address]), 2))
             /\ wire' = wire \o <<Rx(WireBytes(rom[address]), 2, TRUE), CsHigh>>
             /\ address' = address + 1
             /\ pc' = "prom_loop"
             /\ UNCHANGED promRet
        ELSE /\ \E n \in 0..2 :
                  /\ SetTarget(Store(Target, 2 * address, WireBytes(rom[address]), n))
                  /\ wire' = wire \o
                       <<Rx(SubSeq(WireBytes(rom[address]), 1, n), 2, FALSE), CsHigh>>
             /\ promRet' = "MS5611_HAL_ERROR"
             /\ pc' = "prom_done"
             /\ UNCHANGED address
    /\ cs' = "GPIO_PIN_SET"
    /\ UNCHANGED <<op, osr, ret, raw_data, rom, sample, value, locals, calls, entry>>

\* lines 95-104: after the eighth word every word has its bytes exchanged
MS5611PromRead_Swap ==
    /\ pc = "prom_loop"
    /\ address = 8
    /\ SetTarget(SwapBytes(Target))
    /\ promRet' = "MS5611_STATE_READY"
    /\ pc' = "prom_done"
    /\ UNCHANGED <<op, osr, cs, address, ret, raw_data, wire, rom, sample, value, locals, calls, entry>>

\* return to the application when it called MS5611PromRead itself
MS5611PromRead_Return ==
    /\ pc = "prom_done"
    /\ op = "MS5611PromRead"
    /\ ret' = promRet
    /\ pc' = "idle"
    /\ UNCHANGED <<op, osr, cs, promData, prom, address, promRet, raw_data,
                   wire, rom, sample, value, locals, calls, entry>>

----------------------------------------------------------------------------
(* MS5611_Pressure_Conversion, MS5611SPI.c:113-127 *)

\* line 118
D1Command(code) == U8(BitOr(CONVERT_D1_COMMAND, code))

\* called with one of the oversampling codes; line 116: enableCS_MS5611
MS5611_Pressure_Conversion_Call ==
    /\ pc = "idle"
    /\ calls < MaxCalls
    /\ calls' = calls + 1
    /\ entry' = AtEntry
    /\ op' = "MS5611_Pressure_Conversion"
    /\ ret' = "none"
    /\ osr' \in OSRCodes
    /\ cs' = "GPIO_PIN_RESET"
    /\ wire' = <<CsLow>>
    /\ pc' = "d1_tx"
    /\ UNCHANGED <<promData, prom, address, promRet, raw_data, rom, sample, value, locals>>

\* lines 118-126
MS5611_Pressure_Conversion_Transmit ==
    /\ pc = "d1_tx"
    /\ \E ok \in BOOLEAN :
        /\ wire' = wire \o <<Tx(<<D1Command(osr)>>, ok), CsHigh>>
        /\ ret' = IF ok THEN "MS5611_STATE_BUSY" ELSE "MS5611_HAL_ERROR"
    /\ cs' = "GPIO_PIN_SET"
    /\ pc' = "idle"
    /\ UNCHANGED <<op, osr, promData, prom, address, promRet, raw_data, rom, sample, value, locals,
                   calls, entry>>

----------------------------------------------------------------------------
(* MS5611_Temperature_Conversion, MS5611SPI.c:135-150 *)

\* the temperature command built from the pressure constant
D2Command_AsD1(code) == U8(BitOr(CONVERT_D1_COMMAND, code))

\* line 140
D2Command(code) == U8(BitOr(CONVERT_D2_COMMAND, code))

\* called with one of the oversampling codes; line 139: enableCS_MS5611
MS5611_Temperature_Conversion_Call ==
    /\ pc = "idle"
    /\ calls < MaxCalls
    /\ calls' = calls + 1
    /\ entry' = AtEntry
    /\ op' = "MS5611_Temperature_Conversion"
    /\ ret' = "none"
    /\ osr' \in OSRCodes
    /\ cs' = "GPIO_PIN_RESET"
    /\ wire' = <<CsLow>>
    /\ pc' = "d2_tx"
    /\ UNCHANGED <<promData, prom, address, promRet, raw_data, rom, sample, value, locals>>

\* lines 140-149
MS5611_Temperature_Conversion_Transmit ==
    /\ pc = "d2_tx"
    /\ \E ok \in BOOLEAN :
        /\ wire' = wire \o <<Tx(<<D2Command(osr)>>, ok), CsHigh>>
        /\ ret' = IF ok THEN "MS5611_STATE_BUSY" ELSE "MS5611_HAL_ERROR"
    /\ cs' = "GPIO_PIN_SET"
    /\ pc' = "idle"
    /\ UNCHANGED <<op, osr, promData, prom, address, promRet, raw_data, rom, sample, value, locals,
                   calls, entry>>

----------------------------------------------------------------------------
(* MS5611_ADC_Read, MS5611SPI.c:158-182 *)

\* the first byte shifted by 8 instead of 16
AdcValue_Shift8(reply) ==
    BitOr(BitOr(Shl(reply[1], 8), Shl(reply[2], 8)), reply[3])

\* line 179
AdcValue(reply) ==
    BitOr(BitOr(Shl(reply[1], 16), Shl(reply[2], 8)), reply[3])

\* called; line 163: enableCS_MS5611
MS5611_ADC_Read_Call ==
    /\ pc = "idle"
    /\ calls < MaxCalls
    /\ calls' = calls + 1
    /\ entry' = AtEntry
    /\ op' = "MS5611_ADC_Read"
    /\ ret' = "none"
    /\ cs' = "GPIO_PIN_RESET"
    /\ wire' = <<CsLow>>
    /\ pc' = "adc_tx"
    /\ UNCHANGED <<osr, promData, prom, address, promRet, raw_data, rom, sample, value, locals>>

\* lines 165-170
MS5611_ADC_Read_Transmit ==
    /\ pc = "adc_tx"
    /\ \E ok \in BOOLEAN :
        IF ok
        THEN /\ wire' = Append(wire, Tx(<<READ_ADC_COMMAND>>, TRUE))
             /\ pc' = "adc_rx"
             /\ UNCHANGED <<cs, ret>>
        ELSE /\ wire' = wire \o <<Tx(<<READ_ADC_COMMAND>>, FALSE), CsHigh>>
             /\ cs' = "GPIO_PIN_SET"
             /\ ret' = "MS5611_HAL_ERROR"
             /\ pc' = "idle"
    /\ UNCHANGED <<op, osr, promData, prom, address, promRet, raw_data, rom, sample, value, locals,
                   calls, entry>>

\* MS5611_ADC_Read_Receive with *raw_data assigned before the outcome of the
\* receive is tested: a failed receive stores what a cleared reply[3] gives
MS5611_ADC_Read_Receive_StoreFirst ==
    /\ pc = "adc_rx"
    /\ \E ok \in BOOLEAN :
        IF ok
        THEN \E reply \in [1..3 -> AdcBytes] :
                /\ wire' = wire \o <<Rx(reply, 3, TRUE), CsHigh>>
                /\ raw_data' = AdcValue(reply)
                /\ ret' = "MS5611_STATE_READY"
        ELSE /\ wire' = wire \o <<Rx(<<>>, 3, FALSE), CsHigh>>
             /\ ret' = "MS5611_HAL_ERROR"
             /\ raw_data' = AdcValue(<<0, 0, 0>>)
    /\ cs' = "GPIO_PIN_SET"
    /\ pc' = "idle"
    /\ UNCHANGED <<op, osr, promData, prom, address, promRet, rom, sample,
                   value, locals, calls, entry>>

\* lines 171-181: three bytes are received into the local reply[3], which
\* is read only when the receive succeeded
MS5611_ADC_Read_Receive ==
    /\ pc = "adc_rx"
    /\ \E ok \in BOOLEAN :
        IF ok
        THEN \E reply \in [1..3 -> AdcBytes] :
                /\ wire' = wire \o <<Rx(reply, 3, TRUE), CsHigh>>
                /\ raw_data' = AdcValue(reply)
                /\ ret' = "MS5611_STATE_READY"
        ELSE /\ wire' = wire \o <<Rx(<<>>, 3, FALSE), CsHigh>>
             /\ ret' = "MS5611_HAL_ERROR"
             /\ UNCHANGED raw_data
    /\ cs' = "GPIO_PIN_SET"
    /\ pc' = "idle"
    /\ UNCHANGED <<op, osr, promData, prom, address, promRet, rom, sample, value, locals, calls, entry>>

----------------------------------------------------------------------------
Next ==
    \/ MS5611_Init_Call
    \/ MS5611_Init_Reset
    \/ MS5611_Init_Delay
    \/ MS5611_Init_Check
    \/ MS5611PromRead_Call
    \/ MS5611PromRead_Select
    \/ MS5611PromRead_Transmit
    \/ MS5611PromRead_Receive
    \/ MS5611PromRead_Swap
    \/ MS5611PromRead_Return
    \/ MS5611_Pressure_Conversion_Call
    \/ MS5611_Pressure_Conversion_Transmit
    \/ MS5611_Temperature_Conversion_Call
    \/ MS5611_Temperature_Conversion_Transmit
    \/ MS5611_ADC_Read_Call
    \/ MS5611_ADC_Read_Transmit
    \/ MS5611_ADC_Read_Receive
    \/ MS5611_Data_Convert

Spec == Init /\ [][Next]_vars

----------------------------------------------------------------------------
(* The conversion alone, on tables a complete calibration read can leave *)

\* the sixteen bytes of a struct promData holding the eight words w
TableBytes(w) ==
    [k \in 1..16 |->
        IF k % 2 = 1 THEN w[(k + 1) \div 2] % 256 ELSE w[k \div 2] \div 256]

ConvertTables ==
    { <<0, 40127, 36924, 23317, 23282, 33464, 28312, 0>>,
      <<0, 0, 0, 0, 0, 0, 0, 0>>,
      <<0, 65535, 65535, 65535, 65535, 65535, 65535, 0>>,
      <<0, 40127, 36924, 23317, 23282, 0, 0, 0>> }

ConvertTemperatures == {0, 4194304, 7940218, 8077636, 8569150, 16777215}

ConvertPressures == {0, 6465444, 9085466, 16777215}

InitConvert ==
    /\ pc = "idle"
    /\ op = "none"
    /\ osr = 0
    /\ cs = "GPIO_PIN_SET"
    /\ promData \in {TableBytes(w) : w \in ConvertTables}
    /\ prom = ZeroProm
    /\ address = 0
    /\ promRet = "none"
    /\ ret = "none"
    /\ raw_data = 0
    /\ wire = <<>>
    /\ rom = RomImage(36924, 33464)
    /\ calls = 0
    /\ sample \in [pressure : ConvertPressures,
                    temperature : ConvertTemperatures]
    /\ value = [pressure |-> 0, temperature |-> 0]
    /\ entry = [promData |-> ZeroProm, raw_data |-> 0]
    /\ locals = NoLocals

NextConvert == MS5611_Data_Convert

SpecConvert == InitConvert /\ [][NextConvert]_vars

----------------------------------------------------------------------------
(* Properties *)

\* the transmits and receives of a record of bus activity, in order
Transfers(w) == SelectSeq(w, LAMBDA e : e.ev \in {"tx", "rx"})

\* the chip-select changes of a record of bus activity, in order
CsEvents(w) == SelectSeq(w, LAMBDA e : e.ev \in {"cs_low", "cs_high"})

\* some transmit or receive of the record failed
Failed(w) == \E i \in 1..Len(w) : ~w[i].ok

\* a call has been made and has returned
Returned == pc = "idle" /\ op # "none"

\* the reset transmit of the running or returned MS5611_Init succeeded
ResetOk == Len(wire) >= 2 /\ wire[2].ev = "tx" /\ wire[2].ok

\* the part of the record that MS5611PromRead produced
PromWire ==
    IF op = "MS5611_Init" THEN SubSeq(wire, 5, Len(wire)) ELSE wire

\* a calibration read has run to its end without a failed transfer
PromReadDone ==
    /\ op \in {"MS5611_Init", "MS5611PromRead"}
    /\ pc \in {"prom_done", "idle"}
    /\ ~Failed(wire)

\* C1: in every operation and for every choice of failing transfer, the
\* chip-select changes of a call alternate assert, release, assert, ...
\* starting with an assert (each assert is followed by exactly one release
\* before the next assert), the pin is at the level of the last change, and
\* when the call has returned the last change is a release: the line is
\* released after any sequence of completed operations.
C1_SelectBalanced ==
    LET c == CsEvents(wire) IN
    /\ \A i \in 1..Len(c) :
          c[i].ev = (IF i % 2 = 1 THEN "cs_low" ELSE "cs_high")
    /\ cs = (IF Len(c) % 2 = 1 THEN "GPIO_PIN_RESET" ELSE "GPIO_PIN_SET")
    /\ pc = "idle" => (Len(c) % 2 = 0 /\ cs = "GPIO_PIN_SET")

\* C1 witness: an MS5611_Init that asserted the line three times and then
\* returned after a failed transfer
C1_Witness ==
    /\ Returned /\ op = "MS5611_Init"
    /\ Failed(wire)
    /\ Len(CsEvents(wire)) = 6

\* C2: whenever a transmit or receive failed during an operation, the
\* operation returns MS5611_HAL_ERROR.
C2_FailureReturnsHalError ==
    (Returned /\ Failed(wire)) => ret = "MS5611_HAL_ERROR"

\* C3: MS5611_Init returns MS5611_STATE_READY only if the reset transmit and
\* all sixteen calibration transfers succeeded.
C3_ReadyOnlyAfterFullRead ==
    (Returned /\ op = "MS5611_Init" /\ ret = "MS5611_STATE_READY")
        => (~Failed(wire) /\ Len(Transfers(wire)) = 17)

\* C4: whenever the table read by MS5611_Init has its reference-temperature
\* word equal to 0xFFFF, MS5611_Init does not return MS5611_STATE_READY.
C4_TrefAllOnesNotReady ==
    (Returned /\ op = "MS5611_Init" /\ Field(promData, "tref") = 65535)
        => ret # "MS5611_STATE_READY"

\* C5: whenever the table held after the calibration read of MS5611_Init
\* has its pressure-offset word equal to 0, MS5611_Init returns
\* MS5611_STATE_FAILED and never MS5611_STATE_READY, whatever the other
\* seven words are and whether or not a calibration transfer failed.
C5_ZeroOffsetFails ==
    (Returned /\ op = "MS5611_Init" /\ ResetOk /\ Field(promData, "off") = 0)
        => ret = "MS5611_STATE_FAILED"

\* C5 witness: a complete read that left off = 0, the seven other words
\* non-zero and tref different from 0xff, and MS5611_Init returned FAILED
C5_Witness ==
    /\ Returned /\ op = "MS5611_Init" /\ ~Failed(wire)
    /\ Field(promData, "off") = 0
    /\ \A i \in (0..7) \ {2} : Word(promData, i) # 0
    /\ Field(promData, "tref") # 255
    /\ ret = "MS5611_STATE_FAILED"

\* C6: a calibration read without a failed transfer makes exactly sixteen
\* transfers: for i = 0..7 in this order, one transmit of the single byte
\* 0xA0 + 2*i (= 0xA0 | (i << 1)) followed by one receive of exactly two
\* bytes, and no other transfer.
C6_PromReadSequence ==
    PromReadDone =>
        LET t == Transfers(PromWire) IN
        /\ Len(t) = 16
        /\ \A i \in 0..7 :
              /\ t[2 * i + 1].ev = "tx"
              /\ t[2 * i + 1].data = <<160 + 2 * i>>
              /\ t[2 * i + 2].ev = "rx"
              /\ t[2 * i + 2].size = 2
              /\ Len(t[2 * i + 2].data) = 2

\* C6 witness: an MS5611_Init that returned with no failed transfer
C6_Witness ==
    /\ Returned /\ op = "MS5611_Init" /\ ~Failed(wire)
    /\ Len(wire) = 36

\* C7: after a calibration read without a failed transfer, the stored word i
\* is 256 * (first byte received for word i) + (second byte received), and
\* the words 0..7 are the fields reserved, sens, off, tcs, tco, tref,
\* tempsens, crc in this order.
C7_WordsMostSignificantFirst ==
    PromReadDone =>
        LET t == Transfers(PromWire)
            W(i) == 256 * t[2 * i + 2].data[1] + t[2 * i + 2].data[2]
        IN  /\ \A i \in 0..7 : Word(Target, i) = W(i)
            /\ Field(Target, "reserved") = W(0)
            /\ Field(Target, "sens") = W(1)
            /\ Field(Target, "off") = W(2)
            /\ Field(Target, "tcs") = W(3)
            /\ Field(Target, "tco") = W(4)
            /\ Field(Target, "tref") = W(5)
            /\ Field(Target, "tempsens") = W(6)
            /\ Field(Target, "crc") = W(7)

\* C7 witness: a complete read of a device whose words have two different
\* bytes; sens = 40127 was received as 0x9C, 0xBF
C7_Witness ==
    /\ Returned /\ op = "MS5611_Init" /\ ~Failed(wire)
    /\ wire[11].ev = "rx" /\ wire[11].data = <<156, 191>>
    /\ Field(promData, "sens") = 40127
    /\ Field(promData, "off") = 36924

\* C8: MS5611_ADC_Read without a failed transfer transmits exactly the one
\* byte 0x00, then receives exactly three bytes b0, b1, b2, stores
\* 65536*b0 + 256*b1 + b2 (below 2^24) and returns MS5611_STATE_READY; with
\* a failed transmit or receive it returns MS5611_HAL_ERROR.
C8_AdcRead ==
    (Returned /\ op = "MS5611_ADC_Read") =>
        LET t == Transfers(wire) IN
        IF Failed(wire)
        THEN ret = "MS5611_HAL_ERROR"
        ELSE /\ Len(t) = 2
             /\ t[1].ev = "tx" /\ t[1].data = <<0>>
             /\ t[2].ev = "rx" /\ t[2].size = 3 /\ Len(t[2].data) = 3
             /\ raw_data = 65536 * t[2].data[1] + 256 * t[2].data[2]
                           + t[2].data[3]
             /\ raw_data < 16777216
             /\ ret = "MS5611_STATE_READY"

\* C8 witness: a successful read of three different bytes 0xFF, 0x81, 0x00
C8_Witness ==
    /\ Returned /\ op = "MS5611_ADC_Read" /\ ~Failed(wire)
    /\ wire[3].data = <<255, 129, 0>>
    /\ raw_data = 16744704
    /\ ret = "MS5611_STATE_READY"

\* C9: for each of the five oversampling codes, MS5611_Pressure_Conversion
\* makes exactly one transfer, a transmit of the one byte 0x40 | code, and
\* MS5611_Temperature_Conversion exactly one, a transmit of the one byte
\* 0x50 | code (the codes have no bit in common with 0x40 or 0x50, so the
\* bytes are 0x40 + code and 0x50 + code); there is no receive; each returns
\* MS5611_STATE_BUSY when the transmit succeeded and MS5611_HAL_ERROR when
\* it failed.
C9_ConversionCommands ==
    (Returned /\ op \in {"MS5611_Pressure_Conversion",
                         "MS5611_Temperature_Conversion"}) =>
        LET t == Transfers(wire) IN
        /\ osr \in {0, 2, 4, 6, 8}
        /\ Len(t) = 1
        /\ t[1].ev = "tx"
        /\ t[1].data = <<(IF op = "MS5611_Pressure_Conversion"
                          THEN 64 ELSE 80) + osr>>
        /\ ret = (IF t[1].ok THEN "MS5611_STATE_BUSY" ELSE "MS5611_HAL_ERROR")

\* C9 witness: a temperature conversion with code 0x08 that was started
C9_Witness ==
    /\ Returned /\ op = "MS5611_Temperature_Conversion"
    /\ osr = 8
    /\ wire[2].data = <<88>>
    /\ ret = "MS5611_STATE_BUSY"

\* C10: within one call, a failed transmit or receive is followed by no
\* further transmit or receive; after a failed reset transmit MS5611_Init
\* makes no calibration transfer.
C10_NoTransferAfterFailure ==
    /\ \A i \in 1..Len(wire) : \A j \in (i + 1)..Len(wire) :
          ~wire[i].ok => wire[j].ev \notin {"tx", "rx"}
    /\ (op = "MS5611_Init" /\ Len(wire) >= 2 /\ ~wire[2].ok)
          => Len(Transfers(wire)) = 1

\* C10 witness: MS5611_Init returned after the command for word 1 failed,
\* with six words left unread
C10_Witness ==
    /\ Returned /\ op = "MS5611_Init"
    /\ Len(Transfers(wire)) = 4
    /\ ~Transfers(wire)[4].ok
    /\ Transfers(wire)[4].data = <<162>>

\* C16: in MS5611_Init, when the reset transmit (the single byte 0x1E)
\* succeeded, the next primitive called is the delay of 3 milliseconds, so
\* no transfer lies between the reset byte and the end of the delay, and
\* every calibration-read command is transmitted after it.
C16_DelayAfterReset ==
    (op = "MS5611_Init" /\ ResetOk /\ pc # "init_delay") =>
        /\ Len(wire) >= 4
        /\ wire[2].data = <<30>>
        /\ wire[3].ev = "delay" /\ wire[3].size = 3
        /\ \A i \in 1..Len(wire) :
              (wire[i].ev = "tx" /\ wire[i].data[1] >= 160) => i > 3

\* C16 witness: the first calibration-read command has been transmitted by
\* MS5611_Init, after the reset byte and the delay
C16_Witness ==
    /\ op = "MS5611_Init" /\ pc = "prom_rx" /\ address = 0
    /\ Len(wire) = 6
    /\ wire[2].ok /\ wire[3].ev = "delay"
    /\ wire[6].data = <<160>>

\* C18: the byte-order correction is an involution: applied twice to the
\* struct it was applied to (and to each of its two-byte words alone) it
\* gives back the original bytes, and applied once it exchanges the two
\* bytes of each word.
C18_SwapInvolution ==
    \A mem \in {promData, prom} :
        /\ SwapBytes(SwapBytes(mem)) = mem
        /\ \A i \in 0..7 :
              LET w == <<mem[2 * i + 1], mem[2 * i + 2]>> IN
              /\ SwapBytes(w) = <<w[2], w[1]>>
              /\ SwapBytes(SwapBytes(w)) = w

\* C18 witness: a complete calibration read has swapped words whose two
\* bytes differ
C18_Witness ==
    /\ PromReadDone /\ op = "MS5611_Init"
    /\ promData[3] # promData[4]
    /\ SwapBytes(promData) # promData

\* C19: every transmit and receive is issued while the chip-select line is
\* asserted (the last chip-select change before it in the call is an
\* assert, and the pin is low wherever a transfer is about to be made), and
\* a receive directly follows its command inside the same assertion.
C19_TransfersWhileSelected ==
    /\ pc \in {"init_tx", "prom_tx", "prom_rx", "d1_tx", "d2_tx", "adc_tx",
               "adc_rx"} => cs = "GPIO_PIN_RESET"
    /\ \A i \in 1..Len(wire) :
          wire[i].ev \in {"tx", "rx"} =>
              /\ \E j \in 1..(i - 1) :
                    /\ wire[j].ev = "cs_low"
                    /\ \A k \in (j + 1)..(i - 1) : wire[k].ev # "cs_high"
              /\ wire[i].ev = "rx" => wire[i - 1].ev = "tx"

\* C19 witness: MS5611_ADC_Read sent its command and received the answer
\* inside one assertion
C19_Witness ==
    /\ Returned /\ op = "MS5611_ADC_Read" /\ ~Failed(wire)
    /\ Len(wire) = 4
    /\ wire[1].ev = "cs_low" /\ wire[2].ev = "tx" /\ wire[3].ev = "rx"
    /\ wire[4].ev = "cs_high"

\* C14: the static calibration table takes new contents only through an
\* MS5611_Init that returns MS5611_STATE_READY: when MS5611_Init has
\* returned anything else, the table is as it was when the call was entered.
C14_FailedInitKeepsTable ==
    (Returned /\ op = "MS5611_Init" /\ ret # "MS5611_STATE_READY")
        => promData = entry.promData

\* C20: when MS5611_ADC_Read returns MS5611_HAL_ERROR the caller's raw value
\* is what it was when the call was entered; it is not written before the
\* function is about to return successfully.
C20_AdcErrorKeepsRawData ==
    /\ (Returned /\ op = "MS5611_ADC_Read" /\ ret = "MS5611_HAL_ERROR")
          => raw_data = entry.raw_data
    /\ (op = "MS5611_ADC_Read" /\ pc # "idle") => raw_data = entry.raw_data

\* C20 witness: a read that failed in its receive after an earlier read had
\* stored a non-zero value, which is still there
C20_Witness ==
    /\ Returned /\ op = "MS5611_ADC_Read" /\ ret = "MS5611_HAL_ERROR"
    /\ Len(wire) = 4 /\ ~wire[3].ok
    /\ entry.raw_data # 0
    /\ raw_data = entry.raw_data

----------------------------------------------------------------------------
(* The compensation formula of the device's data sheet, every intermediate *)
(* an int64_t and every division by a power of two rounded toward minus    *)
(* infinity; the conversion is compared with it.                           *)

\* a < b for int64_t values whose difference fits an int64_t
Lt64(a, b) == Sub64(a, b)[8] >= 128

Ref_dT(s, mem) == Sub64(I64(s.temperature), Shl64(I64(Field(mem, "tref")), 8))

Ref_TEMP1(s, mem) ==
    Add64(I64(2000),
          Sar64(Mul64(Ref_dT(s, mem), I64(Field(mem, "tempsens"))), 23))

Ref_OFF1(s, mem) ==
    Add64(Shl64(I64(Field(mem, "off")), 16),
          Sar64(Mul64(I64(Field(mem, "tco")), Ref_dT(s, mem)), 7))

Ref_SENS1(s, mem) ==
    Add64(Shl64(I64(Field(mem, "sens")), 15),
          Sar64(Mul64(I64(Field(mem, "tcs")), Ref_dT(s, mem)), 8))

Ref_Pressure(s, SENS, OFF) ==
    Sar64(Sub64(Sar64(Mul64(I64(s.pressure), SENS), 21), OFF), 15)

\* (x + c)^2 on int64_t
Ref_Square(x, c) == Mul64(Add64(x, I64(c)), Add64(x, I64(c)))

\* steps 5 and 6 of the formula from the first-order values
Ref_Second(s, dT, TEMP1, OFF1, SENS1) ==
    LET low  == Lt64(TEMP1, I64(2000))
        cold == Lt64(TEMP1, I64(-1500))
        T2   == Sar64(Mul64(dT, dT), 31)
        M2   == Ref_Square(TEMP1, -2000)
        P2   == Ref_Square(TEMP1, 1500)
        OFF2 == IF cold
                THEN Add64(Sar64(Mul64(I64(5), M2), 1), Mul64(I64(7), P2))
                ELSE Sar64(Mul64(I64(5), M2), 1)
        SENS2 == IF cold
                 THEN Add64(Sar64(Mul64(I64(5), M2), 2),
                            Sar64(Mul64(I64(11), P2), 1))
                 ELSE Sar64(Mul64(I64(5), M2), 2)
    IN  IF low
        THEN [temperature |-> Sub64(TEMP1, T2),
              pressure |-> Ref_Pressure(s, Sub64(SENS1, SENS2),
                                        Sub64(OFF1, OFF2))]
        ELSE [temperature |-> TEMP1,
              pressure |-> Ref_Pressure(s, SENS1, OFF1)]

Ref_Convert(s, mem) ==
    CHOOSE r \in
        {Ref_Second(s, dT, TEMP1, OFF1, SENS1) :
            dT \in {Ref_dT(s, mem)}, TEMP1 \in {Ref_TEMP1(s, mem)},
            OFF1 \in {Ref_OFF1(s, mem)}, SENS1 \in {Ref_SENS1(s, mem)}}
        : TRUE

\* MS5611_Data_Convert has run on the manufacturer's table with the raw
\* pressure 6465444 and the raw temperature 8077636
DatasheetCase ==
    /\ op = "MS5611_Data_Convert"
    /\ promData = TableBytes(<<0, 40127, 36924, 23317, 23282, 33464, 28312, 0>>)
    /\ sample = [pressure |-> 6465444, temperature |-> 8077636]

\* C11 as stated: with the table {0, 40127, 36924, 23317, 23282, 33464,
\* 28312, 0}, raw pressure 6465444 and raw temperature 8077636 the
\* compensated temperature is exactly 2007.
C11_Temperature2007 == DatasheetCase => value.temperature = 2007

\* C11 as amended: with that table and those raw values the compensated
\* temperature is exactly 238 (dT = -489148, first-order TEMP 349, T2 111).
C11_Temperature238 == DatasheetCase => value.temperature = 238

\* C11 witness: the conversion has run on exactly these inputs
C11_Witness ==
    /\ DatasheetCase
    /\ locals.dT = -489148 /\ locals.TEMP1 = 349 /\ locals.T2 = 111
    /\ value.temperature = 238

\* C12: whenever the first-order TEMP is below -1500, the very-cold block
\* adds a non-zero amount to OFF2 and to SENS2: both differ from their
\* values before the block.
C12_VeryColdChangesBoth ==
    (op = "MS5611_Data_Convert" /\ locals.cold) =>
        /\ locals.OFF2 # locals.OFF2low
        /\ locals.SENS2 # locals.SENS2low

\* C13: for 24-bit raw values and any table, the temperature and pressure
\* of MS5611_Data_Convert equal the six-step formula evaluated on signed
\* 64-bit intermediates with divisions rounding toward minus infinity.
C13_EqualsFormula ==
    op = "MS5611_Data_Convert" =>
        /\ I64(value.temperature) = Ref_Convert(sample, promData).temperature
        /\ I64(value.pressure) = Ref_Convert(sample, promData).pressure

\* C15: MS5611_Pressure_Conversion, MS5611_Temperature_Conversion,
\* MS5611_ADC_Read and MS5611_Data_Convert (and a direct MS5611PromRead,
\* which writes the caller's struct) leave the static calibration table as
\* it was when they were entered, at every point of the call and whether
\* they succeed or fail: only MS5611_Init writes it.
C15_OnlyInitWritesTable ==
    (op \notin {"none", "MS5611_Init"}) => promData = entry.promData

\* C15 witness: a conversion has run on a table that an earlier
\* MS5611_Init filled, and the table is still what it was
C15_Witness ==
    /\ Returned /\ op = "MS5611_Data_Convert"
    /\ promData # ZeroProm
    /\ Field(promData, "sens") = 40127
    /\ promData = entry.promData

\* C17: the low-temperature correction is applied exactly when the
\* first-order TEMP of the formula is strictly below 2000; when it is 2000
\* or more the outputs are the first-order TEMP and the pressure computed
\* from the first-order OFF and SENS, nothing subtracted; with an all-zero
\* table and raw temperature 0 the temperature is exactly 2000 with no
\* correction.
C17_CorrectionOnlyBelow2000 ==
    op = "MS5611_Data_Convert" =>
        /\ locals.low <=> Lt64(Ref_TEMP1(sample, promData), I64(2000))
        /\ ~Lt64(Ref_TEMP1(sample, promData), I64(2000)) =>
              /\ I64(value.temperature) = Ref_TEMP1(sample, promData)
              /\ I64(value.pressure) =
                    Ref_Pressure(sample, Ref_SENS1(sample, promData),
                                 Ref_OFF1(sample, promData))
        /\ (promData = ZeroProm /\ sample.temperature = 0) =>
              (value.temperature = 2000 /\ ~locals.low)

\* C17 witness: a conversion whose first-order TEMP is exactly 2000 while
\* dT is large enough for T2 to be non-zero, and nothing was subtracted
C17_Witness ==
    /\ op = "MS5611_Data_Convert"
    /\ locals.TEMP1 = 2000 /\ locals.dT = 16777215
    /\ ~locals.low
    /\ value.temperature = 2000

=============================================================================
